---- MODULE Spec2Model ----
(***************************************************************************)
(* A model of the mock chain of src/src/main.rs: a Blockchain that owns an *)
(* ordered list of token contracts (BasicToken), a per-address sequence    *)
(* table (accounts) and a block_height counter, and whose only entry point *)
(* is process_transaction.                                                 *)
(*                                                                         *)
(* A HashMap<String, u64> is a function whose DOMAIN is the set of keys    *)
(* that have an entry.  u64 is scaled down to 0..U64_MAX; an arithmetic    *)
(* overflow either aborts the process (a build with overflow checks) or    *)
(* wraps modulo U64_MAX + 1 (a build without them).                        *)
(***************************************************************************)
EXTENDS Integers, Sequences, FiniteSets, TLC

\* ------------------------------------------------------------------ bounds
\* the largest value of the (scaled down) u64 type
U64_MAX == 255

\* transactions carry a sequence in 0..MaxSeq
MaxSeq == 2

\* the address strings destinations and airdrop lists are drawn from
Address == {"addr1", "addr2", "addr3"}

\* the addresses that send transactions
Sender == {"addr1", "addr2"}

\* the amounts transactions carry
Amount == {0, 1, U64_MAX}

\* the ids contracts are registered under
RegisteredId == {"USDC", "WBTC"}

\* the contract ids a transaction may name ("NONE" is never registered)
ContractId == RegisteredId \cup {"NONE"}

\* ------------------------------------------------------------- data model
Method == {"BalanceOf", "Transfer"}

Error == {"NotEnoughBalance", "ContractNotFound", "BadTransactionSequence"}

\* The transactions the callers build: transfers, and queries as
\* Transaction::new(sender, amount, contract, Method::BalanceOf).with_seq(..)
\* builds them, with no destination.
Transaction ==
    [sender : Sender, sequence : 0..MaxSeq, amount : Amount,
     contract : ContractId, method : {"Transfer"}, destination : Address]
    \cup
    [sender : Sender, sequence : 0..MaxSeq, amount : {0, 1},
     contract : ContractId, method : {"BalanceOf"}, destination : {""}]

\* Result<u64, Error>, and the two things that are not a return value:
\* "None" before the first call and "Panic" when the call aborted.
Ok(v) == [tag |-> "Ok", val |-> v]

Err(e) == [tag |-> e, val |-> 0]

NoResult == [tag |-> "None", val |-> 0]

Panic == [tag |-> "Panic", val |-> 0]

\* ---------------------------------------------------------------- HashMap
EmptyMap == [k \in {} |-> 0]

\* map.get(&k).map(|x| *x).unwrap_or_default()
GetOrDefault(map, k) == IF k \in DOMAIN map THEN map[k] ELSE 0

\* map.insert(k, v)
Insert(map, k, v) == [x \in DOMAIN map \cup {k} |-> IF x = k THEN v ELSE map[x]]

\* ------------------------------------------------------------- BasicToken
\* Airdrop adding the initial balance to the entry the address already has
RECURSIVE Airdrop_accumulate(_, _, _)
Airdrop_accumulate(ledger, airdrop_list, initial_balance) ==
    IF airdrop_list = <<>> THEN ledger
    ELSE Airdrop_accumulate(
             Insert(ledger, Head(airdrop_list),
                    (GetOrDefault(ledger, Head(airdrop_list)) + initial_balance)
                        % (U64_MAX + 1)),
             Tail(airdrop_list), initial_balance)

\* the loop of BasicToken::new over the airdrop list
RECURSIVE Airdrop(_, _, _)
Airdrop(ledger, airdrop_list, initial_balance) ==
    IF airdrop_list = <<>> THEN ledger
    ELSE Airdrop(Insert(ledger, Head(airdrop_list), initial_balance),
                 Tail(airdrop_list), initial_balance)

BasicToken_new(contract, airdrop_list, initial_balance) ==
    [contract |-> contract,
     ledger   |-> Airdrop(EmptyMap, airdrop_list, initial_balance)]

balance_of(token, address) == GetOrDefault(token.ledger, address)

\* transfer_move with the destination's balance read before the debit is
\* stored
transfer_move_stale(token, sender, balance, amount, to) ==
    LET debited        == Insert(token.ledger, sender, balance - amount)
        target_balance == GetOrDefault(token.ledger, to)
        sum            == target_balance + amount
    IN  IF sum > U64_MAX
        THEN {[token  |-> [token EXCEPT !.ledger = debited],
               result |-> Panic, panic |-> TRUE],
              [token  |-> [token EXCEPT !.ledger =
                              Insert(debited, to, sum % (U64_MAX + 1))],
               result |-> Ok(0), panic |-> FALSE]}
        ELSE {[token  |-> [token EXCEPT !.ledger = Insert(debited, to, sum)],
               result |-> Ok(0), panic |-> FALSE]}

\* The outcomes of the part of transfer that follows the balance check: the
\* token afterwards, the value returned, and whether the call aborted in
\* `target_balance += amount`.
transfer_move(token, sender, balance, amount, to) ==
    LET debited        == Insert(token.ledger, sender, balance - amount)
        target_balance == GetOrDefault(debited, to)
        sum            == target_balance + amount
    IN  IF sum > U64_MAX
        THEN {[token  |-> [token EXCEPT !.ledger = debited],
               result |-> Panic, panic |-> TRUE],
              [token  |-> [token EXCEPT !.ledger =
                              Insert(debited, to, sum % (U64_MAX + 1))],
               result |-> Ok(0), panic |-> FALSE]}
        ELSE {[token  |-> [token EXCEPT !.ledger = Insert(debited, to, sum)],
               result |-> Ok(0), panic |-> FALSE]}

\* transfer with the destination credited before the balance check
transfer_credit_first(token, sender, amount, to) ==
    LET credited == [token EXCEPT !.ledger =
                        Insert(@, to, (GetOrDefault(@, to) + amount) % (U64_MAX + 1))]
        balance  == GetOrDefault(token.ledger, sender)
    IN  IF amount > balance
        THEN {[token |-> credited, result |-> Err("NotEnoughBalance"), panic |-> FALSE]}
        ELSE transfer_move(token, sender, balance, amount, to)

\* The outcomes of token.transfer(sender, amount, to).
transfer(token, sender, amount, to) ==
    LET balance == GetOrDefault(token.ledger, sender) IN
    IF amount > balance
    THEN {[token |-> token, result |-> Err("NotEnoughBalance"), panic |-> FALSE]}
    ELSE transfer_move(token, sender, balance, amount, to)

\* ------------------------------------------------------------- Blockchain
VARIABLES
    block_height,   \* Blockchain.block_height
    contracts,      \* Blockchain.contracts, in registry order
    accounts,       \* Blockchain.accounts: address -> last-seen sequence
    tx,             \* the transaction of the last process_transaction call
    result,         \* what that call returned
    aborted,        \* the process panicked
    pc,             \* the caller: "ready" to call, or the call has "returned"
    accepted,       \* history: the <<sender, sequence>> that passed validation
    observed,       \* history: a BalanceOf answer no Transfer has succeeded since
    args            \* the BasicToken::new arguments the contracts were built with

vars == <<block_height, contracts, accounts, tx, result, aborted, pc,
          accepted, observed, args>>

\* the value of tx while no call has returned
NoTransaction ==
    [sender |-> "", sequence |-> 0, amount |-> 0,
     contract |-> "", method |-> "", destination |-> ""]

\* the value of observed while no answer is remembered
NoObservation == [sender |-> "", contract |-> "", sequence |-> 0, val |-> 0]

\* vec![Box::new(BasicToken::new(..)), ..] for a list of argument triples
Construct(a) ==
    [i \in 1..Len(a) |->
        BasicToken_new(a[i].contract, a[i].airdrop_list, a[i].initial_balance)]

\* the arguments of the two contracts of test_blockchain, the first with the
\* largest initial balance and the second with the smallest, addr2 holding
\* both tokens
TestArgs ==
    <<[contract |-> "USDC", airdrop_list |-> <<"addr1", "addr2">>,
       initial_balance |-> U64_MAX],
      [contract |-> "WBTC", airdrop_list |-> <<"addr2", "addr3">>,
       initial_balance |-> 1]>>

\* the state Blockchain::new(Construct(a)) returns
InitWith(a) ==
    /\ args = a
    /\ block_height = 0
    /\ accounts = EmptyMap
    /\ contracts = Construct(a)
    /\ tx = NoTransaction
    /\ result = NoResult
    /\ aborted = FALSE
    /\ pc = "ready"
    /\ accepted = {}
    /\ observed = NoObservation

\* Blockchain::new(vec![BasicToken::new(..), BasicToken::new(..)]) as in
\* test_blockchain
Init == InitWith(TestArgs)

\* validate_transaction_sequence with `<` for `<=`: a replay is accepted
validate_transaction_sequence_lt(accts, transaction) ==
    LET current_sequence == GetOrDefault(accts, transaction.sender) IN
    IF transaction.sequence < current_sequence
    THEN [accounts |-> accts, result |-> Err("BadTransactionSequence")]
    ELSE [accounts |-> Insert(accts, transaction.sender, transaction.sequence),
          result   |-> Ok(0)]

\* validate_transaction_sequence with the insert before the comparison: a
\* rejected sequence is stored too
validate_transaction_sequence_overwrite(accts, transaction) ==
    LET current_sequence == GetOrDefault(accts, transaction.sender)
        stored == Insert(accts, transaction.sender, transaction.sequence)
    IN  IF transaction.sequence <= current_sequence
        THEN [accounts |-> stored, result |-> Err("BadTransactionSequence")]
        ELSE [accounts |-> stored, result |-> Ok(0)]

\* validate_transaction_sequence accepting only the next sequence: no gaps
validate_transaction_sequence_strict(accts, transaction) ==
    LET current_sequence == GetOrDefault(accts, transaction.sender) IN
    IF transaction.sequence # current_sequence + 1
    THEN [accounts |-> accts, result |-> Err("BadTransactionSequence")]
    ELSE [accounts |-> Insert(accts, transaction.sender, transaction.sequence),
          result   |-> Ok(0)]

\* validate_transaction_sequence without the insert: nothing is consumed
validate_transaction_sequence_forget(accts, transaction) ==
    LET current_sequence == GetOrDefault(accts, transaction.sender) IN
    IF transaction.sequence <= current_sequence
    THEN [accounts |-> accts, result |-> Err("BadTransactionSequence")]
    ELSE [accounts |-> accts, result |-> Ok(0)]

\* what validate_transaction_sequence returns and the sequence table it leaves
validate_transaction_sequence(accts, transaction) ==
    LET current_sequence == GetOrDefault(accts, transaction.sender) IN
    IF transaction.sequence <= current_sequence
    THEN [accounts |-> accts, result |-> Err("BadTransactionSequence")]
    ELSE [accounts |-> Insert(accts, transaction.sender, transaction.sequence),
          result   |-> Ok(0)]

\* Locate taking the last contract that has the id
Locate_last(cs, id, i) ==
    LET found == {j \in i..Len(cs) : cs[j].contract = id} IN
    IF found = {} THEN 0
    ELSE CHOOSE j \in found : \A k \in found : j >= k

\* Locate falling back to the last contract when none has the id
Locate_fallback(cs, id, i) ==
    LET found == {j \in i..Len(cs) : cs[j].contract = id} IN
    IF found = {} THEN Len(cs)
    ELSE CHOOSE j \in found : \A k \in found : j <= k

\* the index of the first contract whose id is `id`, 0 when there is none
RECURSIVE Locate(_, _, _)
Locate(cs, id, i) ==
    IF i > Len(cs) THEN 0
    ELSE IF cs[i].contract = id THEN i
    ELSE Locate(cs, id, i + 1)

\* Execute storing the token after a transfer in the first slot of the list
Execute_first_slot(cs, i, height, transaction) ==
    IF transaction.method = "BalanceOf"
    THEN {[contracts |-> cs, block_height |-> height,
           result |-> Ok(balance_of(cs[i], transaction.sender)),
           panic |-> FALSE]}
    ELSE {[contracts |-> [cs EXCEPT ![1] = o.token], block_height |-> height,
           result |-> o.result, panic |-> o.panic] :
          o \in transfer(cs[i], transaction.sender, transaction.amount,
                         transaction.destination)}

\* Execute with the two arms of the match swapped
Execute_swapped(cs, i, height, transaction) ==
    IF transaction.method = "Transfer"
    THEN {[contracts |-> cs, block_height |-> height,
           result |-> Ok(balance_of(cs[i], transaction.sender)),
           panic |-> FALSE]}
    ELSE {[contracts |-> [cs EXCEPT ![i] = o.token], block_height |-> height,
           result |-> o.result, panic |-> o.panic] :
          o \in transfer(cs[i], transaction.sender, transaction.amount,
                         transaction.destination)}

\* Execute with the query answering for the destination
Execute_query_destination(cs, i, height, transaction) ==
    IF transaction.method = "BalanceOf"
    THEN {[contracts |-> cs, block_height |-> height,
           result |-> Ok(balance_of(cs[i], transaction.destination)),
           panic |-> FALSE]}
    ELSE {[contracts |-> [cs EXCEPT ![i] = o.token], block_height |-> height,
           result |-> o.result, panic |-> o.panic] :
          o \in transfer(cs[i], transaction.sender, transaction.amount,
                         transaction.destination)}

\* The outcomes of the match on transaction.method for the contract found at
\* index i.
Execute(cs, i, height, transaction) ==
    IF transaction.method = "BalanceOf"
    THEN {[contracts |-> cs, block_height |-> height,
           result |-> Ok(balance_of(cs[i], transaction.sender)),
           panic |-> FALSE]}
    ELSE {[contracts |-> [cs EXCEPT ![i] = o.token], block_height |-> height,
           result |-> o.result, panic |-> o.panic] :
          o \in transfer(cs[i], transaction.sender, transaction.amount,
                         transaction.destination)}

\* NotFound without `self.block_height += 1`
NotFound_no_increment(cs, height) ==
    {[contracts |-> cs, block_height |-> height,
      result |-> Err("ContractNotFound"), panic |-> FALSE]}

\* The outcomes of the statements after the loop: `self.block_height += 1`
\* and the error.
NotFound(cs, height) ==
    IF height + 1 > U64_MAX
    THEN {[contracts |-> cs, block_height |-> height,
           result |-> Panic, panic |-> TRUE],
          [contracts |-> cs, block_height |-> (height + 1) % (U64_MAX + 1),
           result |-> Err("ContractNotFound"), panic |-> FALSE]}
    ELSE {[contracts |-> cs, block_height |-> height + 1,
           result |-> Err("ContractNotFound"), panic |-> FALSE]}

\* The outcomes of the part of process_transaction that follows sequence
\* validation.
Dispatch(cs, height, transaction) ==
    LET i == Locate(cs, transaction.contract, 1) IN
    IF i # 0 THEN Execute(cs, i, height, transaction)
    ELSE NotFound(cs, height)

\* process_transaction with the contract looked up before the sequence is
\* validated
process_transaction_lookup_first(transaction) ==
    /\ ~aborted
    /\ pc = "ready"
    /\ pc' = "returned"
    /\ tx' = transaction
    /\ UNCHANGED args
    /\ IF Locate(contracts, transaction.contract, 1) = 0
       THEN /\ accounts' = accounts
            /\ \E o \in NotFound(contracts, block_height) :
                  /\ contracts' = o.contracts
                  /\ block_height' = o.block_height
                  /\ result' = o.result
                  /\ aborted' = o.panic
       ELSE LET v == validate_transaction_sequence(accounts, transaction) IN
            /\ accounts' = v.accounts
            /\ IF v.result.tag # "Ok"
               THEN /\ result' = v.result
                    /\ UNCHANGED <<block_height, contracts, aborted>>
               ELSE \E o \in Dispatch(contracts, block_height, transaction) :
                       /\ contracts' = o.contracts
                       /\ block_height' = o.block_height
                       /\ result' = o.result
                       /\ aborted' = o.panic

process_transaction(transaction) ==
    /\ ~aborted
    /\ pc = "ready"
    /\ pc' = "returned"
    /\ tx' = transaction
    /\ UNCHANGED args
    /\ LET v == validate_transaction_sequence(accounts, transaction) IN
       /\ accounts' = v.accounts
       /\ IF v.result.tag # "Ok"
          THEN /\ result' = v.result
               /\ UNCHANGED <<block_height, contracts, aborted>>
          ELSE \E o \in Dispatch(contracts, block_height, transaction) :
                  /\ contracts' = o.contracts
                  /\ block_height' = o.block_height
                  /\ result' = o.result
                  /\ aborted' = o.panic

\* the caller drops the transaction's result and goes on to its next call
Return ==
    /\ ~aborted
    /\ pc = "returned"
    /\ pc' = "ready"
    /\ tx' = NoTransaction
    /\ result' = NoResult
    /\ UNCHANGED <<block_height, contracts, accounts, aborted, accepted, observed,
                   args>>

Next ==
    \/ \E transaction \in Transaction :
          process_transaction(transaction) /\ UNCHANGED <<accepted, observed>>
    \/ Return

Spec == Init /\ [][Next]_vars

\* ------------------------------------------------------- history variables
\* the call that just ran passed sequence validation: remember its sequence
RecordAccepted ==
    accepted' = IF result'.tag = "BadTransactionSequence" THEN accepted
                ELSE accepted \cup {<<tx'.sender, tx'.sequence>>}

\* A Transfer that succeeds ends the observation; after a BalanceOf that
\* returned a value the observer keeps what it has or remembers this answer.
Observe ==
    observed' \in
        IF tx'.method = "Transfer" /\ result'.tag = "Ok" THEN {NoObservation}
        ELSE IF tx'.method = "BalanceOf" /\ result'.tag = "Ok"
        THEN {observed, [sender |-> tx'.sender, contract |-> tx'.contract,
                         sequence |-> tx'.sequence, val |-> result'.val]}
        ELSE {observed}

\* the calls of the specifications that carry a history: the transfers of 1
\* and the queries
TransactionSeq == {t \in Transaction : t.amount = 1}

NextSeq ==
    \/ \E transaction \in TransactionSeq :
          process_transaction(transaction) /\ RecordAccepted /\ UNCHANGED observed
    \/ Return

\* the program with the history of the accepted sequences
SpecSeq == Init /\ [][NextSeq]_vars

NextQuery ==
    \/ \E transaction \in TransactionSeq :
          process_transaction(transaction) /\ Observe /\ UNCHANGED accepted
    \/ Return

\* the program with an observer of the BalanceOf answers
SpecQuery == Init /\ [][NextQuery]_vars

\* ------------------------------------------------------ largest sequence
\* the calls of TransactionSeq, and the same calls with the largest sequence
TransactionMax ==
    TransactionSeq \cup {[t EXCEPT !.sequence = U64_MAX] : t \in TransactionSeq}

NextMax ==
    \/ \E transaction \in TransactionMax :
          process_transaction(transaction) /\ UNCHANGED <<accepted, observed>>
    \/ Return

\* the program with callers that also use the sequence U64_MAX
SpecMax == Init /\ [][NextMax]_vars

\* ------------------------------------------------------- duplicate ids
\* two contracts registered under one id, addr2 holding both tokens
DupArgs ==
    <<[contract |-> "USDC", airdrop_list |-> <<"addr1", "addr2">>,
       initial_balance |-> U64_MAX],
      [contract |-> "USDC", airdrop_list |-> <<"addr2", "addr3">>,
       initial_balance |-> 1]>>

InitDup == InitWith(DupArgs)

\* the program with two contracts of the same id
SpecDup == InitDup /\ [][Next]_vars

\* ------------------------------------------------------- construction
\* the airdrop lists and the initial balances contracts are built with
AirdropList ==
    {<<>>, <<"addr1">>, <<"addr1", "addr2">>, <<"addr2", "addr1", "addr2">>}

InitialBalance == {0, 1, U64_MAX}

\* the argument lists of the registries that are built: two contracts
NewArgs ==
    {<<[contract |-> "USDC", airdrop_list |-> l1, initial_balance |-> b1],
       [contract |-> "WBTC", airdrop_list |-> l2, initial_balance |-> b2]>> :
        l1 \in AirdropList, l2 \in AirdropList,
        b1 \in InitialBalance, b2 \in InitialBalance}

\* before construction: the arguments are chosen, nothing is built
InitNew ==
    /\ args \in NewArgs
    /\ pc = "start"
    /\ contracts = <<>>
    /\ block_height = 0
    /\ accounts = EmptyMap
    /\ tx = NoTransaction
    /\ result = NoResult
    /\ aborted = FALSE
    /\ accepted = {}
    /\ observed = NoObservation

\* Blockchain::new(vec![Box::new(BasicToken::new(..)), ..])
Blockchain_new ==
    /\ pc = "start"
    /\ pc' = "ready"
    /\ contracts' = Construct(args)
    /\ block_height' = 0
    /\ accounts' = EmptyMap
    /\ UNCHANGED <<tx, result, aborted, accepted, observed, args>>

\* the calls that follow the construction in test_blockchain: the queries
TransactionNew == {t \in Transaction : t.method = "BalanceOf" /\ t.amount = 0}

NextNew ==
    \/ Blockchain_new
    \/ \E transaction \in TransactionNew :
          process_transaction(transaction) /\ UNCHANGED <<accepted, observed>>
    \/ Return

\* the program from before the construction of its contracts
SpecNew == InitNew /\ [][NextNew]_vars

\* ------------------------------------------------- vocabulary of the claims
\* a step of process_transaction
Called == pc = "ready" /\ pc' = "returned"

\* the balance an address has in a ledger: its entry, 0 without one
BalanceIn(ledger, address) == IF address \in DOMAIN ledger THEN ledger[address] ELSE 0

\* the sequence last seen for an address: its entry, 0 without one
LastSeen(accts, address) == IF address \in DOMAIN accts THEN accts[address] ELSE 0

\* the positions of the registered contracts whose id is `id`
Matching(cs, id) == {i \in 1..Len(cs) : cs[i].contract = id}

\* the position of the contract a transaction for `id` is dispatched to
Target(cs, id) == CHOOSE i \in Matching(cs, id) : \A j \in Matching(cs, id) : i <= j

\* two contract lists hold the same balance for every address
SameBalances(cs1, cs2) ==
    \A i \in 1..Len(cs1) : \A a \in Address :
        BalanceIn(cs1[i].ledger, a) = BalanceIn(cs2[i].ledger, a)

\* the sum of the balances of a ledger
RECURSIVE SumOver(_, _)
SumOver(ledger, addresses) ==
    IF addresses = {} THEN 0
    ELSE LET a == CHOOSE x \in addresses : TRUE
         IN  ledger[a] + SumOver(ledger, addresses \ {a})

Supply(token) == SumOver(token.ledger, DOMAIN token.ledger)

\* ---------------------------------------------------------------------- C1
\* C1: a call whose sequence is at most the sender's last-seen sequence (0
\* without an entry) returns BadTransactionSequence and changes neither the
\* sequence table, nor any contract, nor block_height.
C1_StaleSequenceRejected ==
    [][Called /\ tx'.sequence <= LastSeen(accounts, tx'.sender)
         => /\ result' = Err("BadTransactionSequence")
            /\ accounts' = accounts
            /\ contracts' = contracts
            /\ block_height' = block_height
            /\ aborted' = aborted]_vars

\* a replay was rejected: the sender has an entry and the sequence equals it
C1_Witness ==
    /\ pc = "returned"
    /\ result = Err("BadTransactionSequence")
    /\ tx.sender \in DOMAIN accounts
    /\ tx.sequence = accounts[tx.sender]

\* ---------------------------------------------------------------------- C4
\* C4: a Transfer of amount A from S to D # S that returned Ok leaves S with
\* its balance minus A and D with its balance plus A in the target contract;
\* a destination without an entry ends with exactly A.
C4_TransferMovesAmount ==
    [][Called /\ tx'.method = "Transfer" /\ result'.tag = "Ok"
              /\ tx'.sender # tx'.destination
         => LET i      == Target(contracts, tx'.contract)
                before == contracts[i].ledger
                after  == contracts'[i].ledger
            IN  /\ BalanceIn(after, tx'.sender)
                     = BalanceIn(before, tx'.sender) - tx'.amount
                /\ BalanceIn(after, tx'.destination)
                     = BalanceIn(before, tx'.destination) + tx'.amount
                /\ tx'.destination \notin DOMAIN before
                     => /\ tx'.destination \in DOMAIN after
                        /\ after[tx'.destination] = tx'.amount]_vars

\* ---------------------------------------------------------------------- C5
\* C5: no step changes the sum of the balances of any contract, so the sum
\* always equals the one right after construction.
C5_SupplyConstant ==
    [][\A i \in 1..Len(contracts) : Supply(contracts'[i]) = Supply(contracts[i])]_vars

\* ---------------------------------------------------------------------- C6
\* C6: transfer with an amount above the sender's balance returns
\* NotEnoughBalance and leaves the token as it was, and process_transaction
\* returns that error, with every contract unchanged, when the sequence was
\* valid and the contract was found.
C6_InsufficientFunds ==
    [][/\ \A i \in 1..Len(contracts) : \A s \in Address, a \in Amount, d \in Address :
             a > BalanceIn(contracts[i].ledger, s)
               => transfer(contracts[i], s, a, d)
                    = {[token |-> contracts[i], result |-> Err("NotEnoughBalance"),
                        panic |-> FALSE]}
       /\ Called /\ tx'.method = "Transfer"
                 /\ tx'.sequence > LastSeen(accounts, tx'.sender)
                 /\ Matching(contracts, tx'.contract) # {}
                 /\ tx'.amount > BalanceIn(contracts[Target(contracts, tx'.contract)].ledger,
                                           tx'.sender)
            => /\ result' = Err("NotEnoughBalance")
               /\ contracts' = contracts
               /\ aborted' = FALSE]_vars

\* a transfer of more than a positive balance was rejected
C6_Witness ==
    /\ pc = "returned"
    /\ result = Err("NotEnoughBalance")
    /\ tx.method = "Transfer"
    /\ BalanceIn(contracts[Target(contracts, tx.contract)].ledger, tx.sender) > 0

\* ---------------------------------------------------------------------- C7
\* C7 as stated: a transaction whose contract id matches no registered
\* contract fails with ContractNotFound.
C7_UnknownContractAlwaysNotFound ==
    [][Called /\ Matching(contracts, tx'.contract) = {}
         => result' = Err("ContractNotFound")]_vars

\* C7 amended: a transaction that passes sequence validation and whose
\* contract id matches no registered contract fails with ContractNotFound,
\* whatever its method; the call can abort instead only when block_height is
\* already U64_MAX.
C7_UnknownContractNotFound ==
    [][Called /\ tx'.sequence > LastSeen(accounts, tx'.sender)
              /\ Matching(contracts, tx'.contract) = {}
         => \/ result' = Err("ContractNotFound")
            \/ block_height = U64_MAX /\ result' = Panic]_vars

\* a Transfer to an unregistered contract returned ContractNotFound
C7_Witness ==
    /\ pc = "returned"
    /\ result = Err("ContractNotFound")
    /\ tx.method = "Transfer"
    /\ Matching(contracts, tx.contract) = {}

\* ---------------------------------------------------------------------- C9
\* C9: a BalanceOf that passes sequence validation and names a registered
\* contract returns Ok of the sender's balance there, 0 without an entry,
\* whatever its amount and destination.
C9_QueryReturnsBalance ==
    [][Called /\ tx'.method = "BalanceOf"
              /\ tx'.sequence > LastSeen(accounts, tx'.sender)
              /\ Matching(contracts, tx'.contract) # {}
         => LET ledger == contracts[Target(contracts, tx'.contract)].ledger IN
            /\ result' = Ok(BalanceIn(ledger, tx'.sender))
            /\ tx'.sender \notin DOMAIN ledger => result' = Ok(0)
            /\ aborted' = FALSE
            /\ \A a \in Amount, d \in Address :
                  {o.result : o \in Dispatch(contracts, block_height,
                      [tx' EXCEPT !.amount = a, !.destination = d])} = {result'}]_vars

\* a query by a sender without an entry in the contract returned Ok(0), and
\* it carried a positive amount
C9_Witness ==
    /\ pc = "returned"
    /\ tx.method = "BalanceOf"
    /\ result = Ok(0)
    /\ tx.amount > 0
    /\ tx.sender \notin DOMAIN contracts[Target(contracts, tx.contract)].ledger

\* --------------------------------------------------------------------- C10
\* C10: a Transfer from an address to itself of at most its balance returns
\* Ok and leaves every balance of every contract as it was.
C10_SelfTransfer ==
    [][Called /\ tx'.method = "Transfer" /\ tx'.sender = tx'.destination
              /\ tx'.sequence > LastSeen(accounts, tx'.sender)
              /\ Matching(contracts, tx'.contract) # {}
              /\ tx'.amount <= BalanceIn(contracts[Target(contracts, tx'.contract)].ledger,
                                         tx'.sender)
         => /\ result' = Ok(0)
            /\ aborted' = FALSE
            /\ SameBalances(contracts, contracts')]_vars

\* an address transferred a positive amount to itself
C10_Witness ==
    /\ pc = "returned"
    /\ tx.method = "Transfer"
    /\ tx.sender = tx.destination
    /\ tx.amount > 0
    /\ result = Ok(0)

\* ---------------------------------------------------------------------- C2
\* C2: no step removes an entry of the sequence table or lowers it, every
\* change of an entry raises it, and a call that passes validation carries a
\* sequence above every sequence accepted from its sender before.
C2_SequenceIncreases ==
    [][/\ \A a \in DOMAIN accounts :
             a \in DOMAIN accounts' /\ accounts'[a] >= accounts[a]
       /\ \A a \in DOMAIN accounts' :
             accounts'[a] # LastSeen(accounts, a) => accounts'[a] > LastSeen(accounts, a)
       /\ Called /\ result'.tag # "BadTransactionSequence"
            => \A p \in accepted : p[1] = tx'.sender => p[2] < tx'.sequence]_vars

\* a sender had sequence 1 accepted and later the largest one
C2_Witness ==
    /\ pc = "returned"
    /\ tx.sequence = MaxSeq
    /\ {<<tx.sender, 1>>, <<tx.sender, MaxSeq>>} \subseteq accepted
    /\ accounts[tx.sender] = MaxSeq

\* ---------------------------------------------------------------------- C3
\* C3: a call with a sequence above the sender's last-seen one leaves the
\* last-seen sequence equal to it whatever it returns, and a later call with
\* a sender and sequence that passed validation before returns
\* BadTransactionSequence.
C3_SequenceConsumed ==
    [][Called
         => /\ tx'.sequence > LastSeen(accounts, tx'.sender)
                 => /\ tx'.sender \in DOMAIN accounts'
                    /\ accounts'[tx'.sender] = tx'.sequence
            /\ <<tx'.sender, tx'.sequence>> \in accepted
                 => result' = Err("BadTransactionSequence")]_vars

\* the only call accepted so far returned ContractNotFound (block_height is
\* 1), and its resubmission with the same sequence was rejected
C3_Witness ==
    /\ pc = "returned"
    /\ result = Err("BadTransactionSequence")
    /\ accepted = {<<tx.sender, tx.sequence>>}
    /\ block_height = 1

\* ---------------------------------------------------------------------- C8
\* C8: a BalanceOf call changes no balance of any contract, and it returns
\* the value an earlier BalanceOf of the same sender on the same contract
\* returned when no Transfer has succeeded since.
C8_QueryIdempotent ==
    [][Called /\ tx'.method = "BalanceOf"
         => /\ SameBalances(contracts, contracts')
            /\ /\ result'.tag = "Ok"
               /\ observed # NoObservation
               /\ observed.sender = tx'.sender
               /\ observed.contract = tx'.contract
               => /\ result'.val = observed.val
                  /\ tx'.sequence > observed.sequence]_vars

\* a later query of a sender on a contract repeated a positive answer
C8_Witness ==
    /\ pc = "returned"
    /\ tx.method = "BalanceOf"
    /\ result.tag = "Ok" /\ result.val > 0
    /\ observed.sender = tx.sender
    /\ observed.contract = tx.contract
    /\ observed.sequence < tx.sequence
    /\ observed.val = result.val

\* --------------------------------------------------------------------- C11
\* C11: no call of process_transaction aborts, and in a Transfer that passed
\* the balance check the destination's balance plus the amount is at most
\* U64_MAX.
C11_NeverAborts ==
    [][Called
         => /\ aborted' = FALSE
            /\ result'.tag \in {"Ok"} \cup Error
            /\ /\ tx'.method = "Transfer"
               /\ tx'.sequence > LastSeen(accounts, tx'.sender)
               /\ Matching(contracts, tx'.contract) # {}
               /\ tx'.amount <= BalanceIn(contracts[Target(contracts, tx'.contract)].ledger,
                                          tx'.sender)
               => LET ledger == contracts[Target(contracts, tx'.contract)].ledger
                      credit == IF tx'.destination = tx'.sender
                                THEN BalanceIn(ledger, tx'.sender) - tx'.amount
                                ELSE BalanceIn(ledger, tx'.destination)
                  IN  credit + tx'.amount <= U64_MAX]_vars

\* --------------------------------------------------------------------- C12
\* C12: whenever a call was rejected with BadTransactionSequence, some
\* sequence in 0..U64_MAX makes the same transaction pass sequence validation.
C12_Recoverable ==
    pc = "returned" /\ result = Err("BadTransactionSequence")
      => \E sequence \in 0..U64_MAX :
            validate_transaction_sequence(
                accounts, [tx EXCEPT !.sequence = sequence]).result.tag = "Ok"

\* --------------------------------------------------------------------- C13
\* C13: block_height starts at 0 and no step lowers it; a call raises it by
\* exactly 1 when it returns ContractNotFound, and only then, and leaves it
\* as it was with every other result.
C13_HeightCountsNotFound ==
    /\ block_height = 0
    /\ [][/\ block_height' >= block_height
          /\ Called
               => /\ result' = Err("ContractNotFound")
                       <=> block_height' = block_height + 1
                  /\ result'.tag \in {"Ok", "NotEnoughBalance", "BadTransactionSequence"}
                       => block_height' = block_height]_vars

\* the second call that returned ContractNotFound
C13_Witness ==
    /\ pc = "returned"
    /\ result = Err("ContractNotFound")
    /\ block_height = 2

\* --------------------------------------------------------------------- C14
\* C14: the sequence is checked first, the contract is looked up second and
\* the balance is checked last: a call with a sequence that is not above the
\* last-seen one returns BadTransactionSequence with every ledger untouched,
\* whatever its contract and amount; a Transfer with a valid sequence to an
\* unregistered contract returns ContractNotFound whatever its amount; and
\* NotEnoughBalance is returned only past both checks.
C14_CheckOrder ==
    [][Called
         => /\ tx'.sequence <= LastSeen(accounts, tx'.sender)
                 => result' = Err("BadTransactionSequence") /\ contracts' = contracts
            /\ /\ tx'.sequence > LastSeen(accounts, tx'.sender)
               /\ Matching(contracts, tx'.contract) = {}
               => result' = Err("ContractNotFound") /\ contracts' = contracts
            /\ result' = Err("NotEnoughBalance")
                 => /\ tx'.sequence > LastSeen(accounts, tx'.sender)
                    /\ Matching(contracts, tx'.contract) # {}]_vars

\* a replayed Transfer of the largest amount to an unregistered contract was
\* rejected for its sequence
C14_Witness ==
    /\ pc = "returned"
    /\ result = Err("BadTransactionSequence")
    /\ tx.method = "Transfer"
    /\ tx.contract = "NONE"
    /\ tx.amount = U64_MAX
    /\ tx.sequence >= 1

\* --------------------------------------------------------------------- C15
\* C15: a contract registered after another one of the same id stays as it
\* was built, whatever is called; a query for the id answers from the first
\* contract of that id, and a Transfer of a positive amount between two
\* addresses changes that first contract.
C15_FirstMatchWins ==
    [][/\ \A i \in 1..Len(contracts) :
             (\E j \in 1..(i - 1) : contracts[j].contract = contracts[i].contract)
               => /\ contracts[i] = Construct(args)[i]
                  /\ contracts'[i] = contracts[i]
       /\ Called /\ tx'.method = "BalanceOf" /\ result'.tag = "Ok"
            => result'.val
                 = BalanceIn(contracts[Target(contracts, tx'.contract)].ledger, tx'.sender)
       /\ Called /\ tx'.method = "Transfer" /\ result'.tag = "Ok"
                 /\ tx'.amount > 0 /\ tx'.sender # tx'.destination
            => LET i == Target(contracts, tx'.contract)
               IN  contracts'[i] # contracts[i]]_vars

\* addr2, which holds both tokens, moved 1 of the id that is registered twice
C15_Witness ==
    /\ pc = "returned"
    /\ tx.method = "Transfer"
    /\ result = Ok(0)
    /\ tx.sender = "addr2"
    /\ tx.amount = 1
    /\ tx.destination = "addr3"
    /\ Cardinality(Matching(contracts, tx.contract)) = 2
    /\ contracts[1] # Construct(args)[1]
    /\ contracts[2] = Construct(args)[2]

\* --------------------------------------------------------------------- C16
\* C16: a call with any sequence above its sender's last-seen one passes
\* sequence validation, also when the sequence skips numbers or was accepted
\* from another sender, and no call changes the entry of an address other
\* than its sender.
C16_PerSenderGaps ==
    [][Called
         => /\ tx'.sequence > LastSeen(accounts, tx'.sender)
                 => result' # Err("BadTransactionSequence")
            /\ \A a \in (Address \cup DOMAIN accounts \cup DOMAIN accounts') \ {tx'.sender} :
                  /\ a \in DOMAIN accounts' <=> a \in DOMAIN accounts
                  /\ LastSeen(accounts', a) = LastSeen(accounts, a)]_vars

\* both senders had only the sequence MaxSeq accepted, skipping the ones
\* below, the second in a Transfer to the first
C16_Witness ==
    /\ pc = "returned"
    /\ tx.method = "Transfer"
    /\ tx.sender = "addr2"
    /\ tx.destination = "addr1"
    /\ tx.sequence = MaxSeq
    /\ result # Err("BadTransactionSequence")
    /\ accepted = {<<"addr1", MaxSeq>>, <<"addr2", MaxSeq>>}
    /\ accounts = [a \in {"addr1", "addr2"} |-> MaxSeq]

\* --------------------------------------------------------------------- C17
\* C17: a Transfer call, whatever it returns, leaves every balance as it was
\* except those of its sender and its destination in the contract it is
\* dispatched to.
C17_TransferFrame ==
    [][Called /\ tx'.method = "Transfer"
         => /\ Len(contracts') = Len(contracts)
            /\ \A i \in 1..Len(contracts) : \A a \in Address :
                  \/ /\ Matching(contracts, tx'.contract) # {}
                     /\ i = Target(contracts, tx'.contract)
                     /\ a \in {tx'.sender, tx'.destination}
                  \/ BalanceIn(contracts'[i].ledger, a)
                       = BalanceIn(contracts[i].ledger, a)]_vars

\* addr2 moved 1 in the second contract to addr1, and addr3 still has its 1
C17_Witness ==
    /\ pc = "returned"
    /\ tx.method = "Transfer"
    /\ result = Ok(0)
    /\ tx.amount = 1
    /\ Target(contracts, tx.contract) = 2
    /\ tx.sender = "addr2"
    /\ tx.destination = "addr1"
    /\ BalanceIn(contracts[2].ledger, "addr1") = 1
    /\ BalanceIn(contracts[2].ledger, "addr3") = 1

\* --------------------------------------------------------------------- C18
\* C18: the construction leaves, in each contract, the initial balance to
\* every address of its airdrop list, however often it is listed, and 0 to
\* every other address; the sequence table is empty and block_height is 0.
C18_Construction ==
    [][pc = "start" /\ pc' = "ready"
         => /\ Len(contracts') = Len(args)
            /\ \A i \in 1..Len(args) :
                  /\ contracts'[i].contract = args[i].contract
                  /\ \A a \in Address \cup DOMAIN contracts'[i].ledger :
                        BalanceIn(contracts'[i].ledger, a)
                          = IF \E k \in 1..Len(args[i].airdrop_list) :
                                   args[i].airdrop_list[k] = a
                            THEN args[i].initial_balance
                            ELSE 0
            /\ accounts' = EmptyMap
            /\ block_height' = 0]_vars

\* the first query after the construction answered 1 to addr2, which the
\* airdrop list of the contract names twice
C18_Witness ==
    /\ pc = "returned"
    /\ tx.method = "BalanceOf"
    /\ tx.sender = "addr2"
    /\ tx.contract = "USDC"
    /\ result = Ok(1)
    /\ args[1].airdrop_list = <<"addr2", "addr1", "addr2">>
    /\ args[1].initial_balance = 1
    /\ accounts = [a \in {"addr2"} |-> tx.sequence]
    /\ block_height = 0

====
